---- MODULE Spec2Model ----
(***************************************************************************)
(* Model of the axum-otel-metrics middleware (src/src/lib.rs): the         *)
(* HttpMetrics service (call), its ResponseFuture (poll, drop), and the    *)
(* five OpenTelemetry instruments they update.                             *)
(*                                                                         *)
(* Rust Strings and header values are sequences of one-character strings,  *)
(* so that length, prefix tests, to_str and parse are computed as the code *)
(* computes them.  Option<T> is a sequence of length 0 (None) or 1 (Some). *)
(***************************************************************************)
EXTENDS Integers, Sequences, FiniteSets, Bags, TLC

\* ------------------------------------------------------------------------
\* Bounds of the model
\* ------------------------------------------------------------------------
\* number of requests the service handles in one behaviour
MaxReqs == 2
\* largest value (in clock ticks) read from start.elapsed()
MaxLatency == 1

\* number of build() calls made in one process
MaxBuilds == 2

ReqIds == 1..MaxReqs

\* ------------------------------------------------------------------------
\* Strings
\* ------------------------------------------------------------------------
None == <<>>
Some(x) == <<x>>

\* a header byte outside the visible ASCII range (HeaderValue::to_str fails)
NonAsciiByte == "<0xFF>"

Digits == <<"0", "1", "2", "3", "4", "5", "6", "7", "8", "9">>

IsDigit(c) == \E i \in 1..10 : Digits[i] = c

DigitVal(c) == (CHOOSE i \in 1..10 : Digits[i] = c) - 1

\* str::starts_with
starts_with(s, p) == Len(s) >= Len(p) /\ SubSeq(s, 1, Len(p)) = p

\* HeaderValue::to_str: Ok(string) iff every byte is visible ASCII
to_str(v) ==
    IF \A i \in 1..Len(v) : v[i] /= NonAsciiByte THEN <<"Ok", v>> ELSE <<"Err">>

RECURSIVE ParseDigits(_, _)
ParseDigits(s, acc) ==
    IF s = <<>> THEN acc ELSE ParseDigits(Tail(s), 10 * acc + DigitVal(Head(s)))

\* str::parse::<usize>: an optional '+' followed by at least one digit
parse_usize(s) ==
    LET d == IF s /= <<>> /\ Head(s) = "+" THEN Tail(s) ELSE s
    IN  IF d /= <<>> /\ \A i \in 1..Len(d) : IsDigit(d[i])
        THEN <<"Ok", ParseDigits(d, 0)>>
        ELSE <<"Err">>

RECURSIVE u_to_string(_)
\* u16::to_string: decimal digits, most significant first
u_to_string(n) ==
    IF n < 10 THEN <<Digits[n + 1]>>
    ELSE u_to_string(n \div 10) \o <<Digits[(n % 10) + 1]>>

\* bool::to_string
bool_to_string(b) ==
    IF b THEN <<"t", "r", "u", "e">> ELSE <<"f", "a", "l", "s", "e">>

S_https == <<"h", "t", "t", "p", "s">>
S_http == <<"h", "t", "t", "p">>
S_on == <<"o", "n">>
S_unknown == <<"u", "n", "k", "n", "o", "w", "n">>
S_empty == <<>>
S_metrics == <<"/", "m", "e", "t", "r", "i", "c", "s">>
S_favicon == <<"/", "f", "a", "v", "i", "c", "o", "n", ".", "i", "c", "o">>
S_hello == <<"/", "h", "e", "l", "l", "o">>
S_stats == <<"/", "s", "t", "a", "t", "s">>
S_GET == <<"G", "E", "T">>
S_POST == <<"P", "O", "S", "T">>

\* header names, in the lower-case form the HeaderMap stores and looks up
H_forwarded_proto == "x-forwarded-proto"
H_forwarded_protocol == "x-forwarded-protocol"
H_forwarded_ssl == "x-forwarded-ssl"
H_url_scheme == "x-url-scheme"
H_host == "host"
H_content_length == "content-length"

\* HeaderMap::get: the first value stored under the name, if any
HeaderGet(headers, name) ==
    LET idx == {i \in 1..Len(headers) : headers[i][1] = name}
    IN  IF idx = {} THEN None
        ELSE Some(headers[CHOOSE i \in idx : \A j \in idx : i <= j][2])

\* ------------------------------------------------------------------------
\* PathSkipper
\* ------------------------------------------------------------------------
\* PathSkipper::default as an exact match of the two paths
DefaultSkip_Exact(s) == s = S_metrics \/ s = S_favicon

\* PathSkipper::default: |s| s.starts_with("/metrics") || s.starts_with("/favicon.ico")
DefaultSkip(s) == starts_with(s, S_metrics) \/ starts_with(s, S_favicon)

\* the skipper of test_builder_with_arced_skipper: |_| true
AllSkip(s) == TRUE

\* the skippers a layer is built with in this model
Skippers == {"default", "all"}

\* (this.state.skipper.skip)(path)
Skip(skipper, s) == IF skipper = "default" THEN DefaultSkip(s) ELSE AllSkip(s)

\* ------------------------------------------------------------------------
\* Requests, responses and the layer's state
\* ------------------------------------------------------------------------
Request(method, uri_path, uri_host, matched_path, headers) ==
    [method |-> method, uri_path |-> uri_path, uri_host |-> uri_host,
     matched_path |-> matched_path, headers |-> headers]

\* the requests the clients send in this model
ReqInputs ==
    { Request(S_GET, S_hello, None, Some(S_hello), <<<<H_host, <<"a">>>>>>),
      Request(S_GET, S_metrics, None, Some(S_metrics), <<>>),
      Request(S_GET, S_metrics, None, None, <<<<H_forwarded_proto, S_https>>>>),
      Request(S_POST, S_hello, Some(<<"b">>), Some(S_hello),
              <<<<H_content_length, <<"7">>>>, <<H_forwarded_ssl, S_on>>>>),
      Request(S_GET, S_hello, None, Some(S_hello),
              <<<<H_content_length, <<NonAsciiByte>>>>>>),
      Request(S_GET, S_hello, None, Some(S_hello),
              <<<<H_forwarded_proto, <<NonAsciiByte>>>>>>),
      Request(S_GET, S_stats, None, Some(S_stats), <<>>) }

\* a request not yet received
NoRequest == Request(S_empty, S_empty, None, None, <<>>)

\* Response<B>: the status code and the upper bound of the body's size hint
Responses ==
    { [status |-> 200, upper |-> Some(13)], [status |-> 404, upper |-> None] }

\* the errors E an inner service resolves to
Errors == {"inner error"}

\* Poll<Result<Response<B>, E>>
Pending == <<"Pending">>
ReadyOk(response) == <<"Ready", "Ok", response>>
ReadyErr(e) == <<"Ready", "Err", e>>

\* what one poll of the inner future can return
InnerResults ==
    {Pending} \cup {ReadyOk(rsp) : rsp \in Responses} \cup {ReadyErr(e) : e \in Errors}

\* no poll has returned yet
NotPolled == <<"NotPolled">>

\* ------------------------------------------------------------------------
\* Instruments
\* ------------------------------------------------------------------------
K_method == "http.request.method"
K_scheme == "url.scheme"
K_route == "http.route"
K_status == "http.response.status_code"
K_host == "server.address"

\* one call of Counter::add, UpDownCounter::add or Histogram::record
InstrCall(inst, value, labels) == [inst |-> inst, value |-> value, labels |-> labels]

\* Counter::add / UpDownCounter::add on the series of a label set
SeriesAdd(series, labels, delta) ==
    IF labels \in DOMAIN series
    THEN [series EXCEPT ![labels] = @ + delta]
    ELSE series @@ (labels :> delta)

\* Histogram::record: one more observation of the value in the series
HistRecord(hist, labels, value) ==
    hist (+) SetToBag({[labels |-> labels, value |-> value]})

\* struct Metric right after build(): no series has a value yet
EmptyMetric ==
    [requests_total |-> <<>>, req_duration |-> EmptyBag, req_size |-> EmptyBag,
     res_size |-> EmptyBag, req_active |-> <<>>]

Apply(m, c) ==
    CASE c.inst = "req_active" ->
           [m EXCEPT !.req_active = SeriesAdd(@, c.labels, c.value)]
      [] c.inst = "requests_total" ->
           [m EXCEPT !.requests_total = SeriesAdd(@, c.labels, c.value)]
      [] c.inst = "req_duration" ->
           [m EXCEPT !.req_duration = HistRecord(@, c.labels, c.value)]
      [] c.inst = "req_size" ->
           [m EXCEPT !.req_size = HistRecord(@, c.labels, c.value)]
      [] c.inst = "res_size" ->
           [m EXCEPT !.res_size = HistRecord(@, c.labels, c.value)]

RECURSIVE ApplyAll(_, _)
\* the instrument calls of one handler, in program order
ApplyAll(m, cs) == IF cs = <<>> THEN m ELSE ApplyAll(Apply(m, Head(cs)), Tail(cs))

\* ------------------------------------------------------------------------
\* HttpMetrics::call
\* ------------------------------------------------------------------------
Ok(v) == <<"Ok", v>>
Panic == <<"Panic">>

\* Result::unwrap on the result of to_str
unwrap(res) == IF res[1] = "Ok" THEN Ok(res[2]) ELSE Panic

\* the url_scheme expression at the head of call
url_scheme(is_tls, headers) ==
    LET proto == HeaderGet(headers, H_forwarded_proto)
        protocol == HeaderGet(headers, H_forwarded_protocol)
        ssl == HeaderGet(headers, H_forwarded_ssl)
        url == HeaderGet(headers, H_url_scheme)
    IN  IF is_tls THEN Ok(S_https)
        ELSE IF proto /= None THEN unwrap(to_str(proto[1]))
        ELSE IF protocol /= None THEN unwrap(to_str(protocol[1]))
        ELSE IF bool_to_string(ssl /= None) = S_on THEN Ok(S_https)
        ELSE IF url /= None THEN unwrap(to_str(url[1]))
        ELSE Ok(S_http)

RECURSIVE HeaderBytes(_)
\* the for_each over req.headers(): key length plus value byte length
HeaderBytes(headers) ==
    IF headers = <<>> THEN 0
    ELSE Len(Head(headers)[1]) + Len(Head(headers)[2]) + HeaderBytes(Tail(headers))

compute_approximate_request_size(rq) ==
    LET cl == HeaderGet(rq.headers, H_content_length)
        clstr == IF cl = None THEN Ok(S_empty) ELSE unwrap(to_str(cl[1]))
        clval == IF cl = None THEN 0
                 ELSE IF parse_usize(clstr[2])[1] = "Ok" THEN parse_usize(clstr[2])[2]
                 ELSE 0
    IN  IF clstr = Panic THEN Panic
        ELSE Ok(Len(rq.uri_path) + Len(rq.method) + HeaderBytes(rq.headers)
                + (IF rq.uri_host = None THEN 0 ELSE Len(rq.uri_host[1]))
                + clval)

\* the label array of the two req_active.add calls
ActiveLabels(method, scheme) == (K_method :> method) @@ (K_scheme :> scheme)

\* the Host header as text, or "unknown"
HostOf(headers) ==
    LET h == HeaderGet(headers, H_host)
    IN  IF h /= None /\ to_str(h[1])[1] = "Ok" THEN to_str(h[1])[2] ELSE S_unknown

ResponseFuture(path, method, scheme, host, req_size) ==
    [path |-> path, method |-> method, url_scheme |-> scheme, host |-> host,
     req_size |-> req_size]

\* a request whose call has returned no future
NoFuture == ResponseFuture(S_empty, S_empty, S_empty, S_empty, 0)

\* call: the instrument calls it makes, in order, and the future it returns
\* (None when it panics on the way)
call(state, rq) ==
    LET scheme == url_scheme(state.is_tls, rq.headers)
        inc == InstrCall("req_active", 1, ActiveLabels(rq.method, scheme[2]))
        path == IF rq.matched_path /= None THEN rq.matched_path[1] ELSE S_empty
        host == HostOf(rq.headers)
        size == compute_approximate_request_size(rq)
    IN  IF scheme = Panic THEN [calls |-> <<>>, future |-> None]
        ELSE IF size = Panic THEN [calls |-> <<inc>>, future |-> None]
        ELSE [calls |-> <<inc>>,
              future |-> Some(ResponseFuture(path, rq.method, scheme[2], host, size[2]))]

\* ------------------------------------------------------------------------
\* ResponseFuture::poll
\* ------------------------------------------------------------------------
\* the labels array built in poll
CompletionLabels(this, status) ==
    (K_method :> this.method) @@ (K_route :> this.path) @@ (K_status :> status)
    @@ (K_host :> this.host)

\* Complete with the decrement made under the scheme "http", whatever scheme
\* the increment used
Complete_DecrementHttp(this, skipper, response, latency) ==
    LET dec == InstrCall("req_active", -1, ActiveLabels(this.method, S_http))
        status == u_to_string(response.status)
        res_size == IF response.upper = None THEN 0 ELSE response.upper[1]
        labels == CompletionLabels(this, status)
    IN  IF Skip(skipper, this.path)
        THEN <<dec>>
        ELSE <<dec,
               InstrCall("requests_total", 1, labels),
               InstrCall("req_size", this.req_size, labels),
               InstrCall("res_size", res_size, labels),
               InstrCall("req_duration", latency, labels)>>

\* the part of poll that runs once the inner future is Ready(Ok(response)):
\* the instrument calls made, in order
Complete(this, skipper, response, latency) ==
    LET dec == InstrCall("req_active", -1, ActiveLabels(this.method, this.url_scheme))
        status == u_to_string(response.status)
        res_size == IF response.upper = None THEN 0 ELSE response.upper[1]
        labels == CompletionLabels(this, status)
    IN  IF Skip(skipper, this.path)
        THEN <<dec>>
        ELSE <<dec,
               InstrCall("requests_total", 1, labels),
               InstrCall("req_size", this.req_size, labels),
               InstrCall("res_size", res_size, labels),
               InstrCall("req_duration", latency, labels)>>

\* poll with the increment of requests_total made a second time
poll_CountTwice(this, skipper, res, latency) ==
    IF res = Pending THEN [calls |-> <<>>, ret |-> Pending]
    ELSE IF res[2] = "Err" THEN [calls |-> <<>>, ret |-> ReadyErr(res[3])]
    ELSE LET cs == Complete(this, skipper, res[3], latency)
         IN  [calls |-> IF Len(cs) > 1 THEN cs \o <<cs[2]>> ELSE cs,
              ret |-> ReadyOk(res[3])]

\* poll that keeps waiting when the inner future resolved to an error
poll_ErrAsPending(this, skipper, res, latency) ==
    IF res = Pending \/ res[2] = "Err" THEN [calls |-> <<>>, ret |-> Pending]
    ELSE [calls |-> Complete(this, skipper, res[3], latency), ret |-> ReadyOk(res[3])]

\* poll that counts a failed request in requests_total
poll_CountErr(this, skipper, res, latency) ==
    IF res = Pending THEN [calls |-> <<>>, ret |-> Pending]
    ELSE IF res[2] = "Err"
    THEN [calls |-> <<InstrCall("requests_total", 1,
                                CompletionLabels(this, u_to_string(500)))>>,
          ret |-> ReadyErr(res[3])]
    ELSE [calls |-> Complete(this, skipper, res[3], latency), ret |-> ReadyOk(res[3])]

\* poll: given what the inner future's poll returned and the elapsed time,
\* the instrument calls made, in order, and the value returned
poll(this, skipper, res, latency) ==
    IF res = Pending THEN [calls |-> <<>>, ret |-> Pending]
    ELSE IF res[2] = "Err" THEN [calls |-> <<>>, ret |-> ReadyErr(res[3])]
    ELSE [calls |-> Complete(this, skipper, res[3], latency), ret |-> ReadyOk(res[3])]

\* ------------------------------------------------------------------------
\* HttpMetricsLayerBuilder
\* ------------------------------------------------------------------------
S_prometheus == <<"p", "r", "o", "m", "e", "t", "h", "e", "u", "s">>
S_otlp == <<"o", "t", "l", "p">>
S_stdout == <<"s", "t", "d", "o", "u", "t">>
S_foo == <<"f", "o", "o">>
S_ns == <<"n", "s">>
S_foo_ns == <<"f", "o", "o", ".", "n", "s">>
S_app == <<"a", "p", "p">>
S_version == <<"1">>
S_ip == <<"1", "0", ".", "0", ".", "0", ".", "1">>

\* the arguments the builder methods are called with in this model
ServiceNames == {S_foo, S_foo_ns}
ServiceVersions == {S_version}
Prefixes == {S_app}
ScrapePaths == {S_metrics, S_stats}
LabelMaps == {<<<<"env", <<"t", "e", "s", "t", "i", "n", "g">>>>>>}
Exporters == {S_prometheus, S_otlp, S_stdout}

\* the environment of the process: INSTANCE_NAMESPACE and INSTANCE_IP
Envs == {[ns |-> S_empty, ip |-> S_empty], [ns |-> S_ns, ip |-> S_ip]}

\* impl Default for HttpMetricsLayerBuilder
DefaultBuilder ==
    [service_name |-> None, service_version |-> None, prefix |-> None,
     path |-> S_metrics, labels |-> None, skipper |-> "default", is_tls |-> FALSE,
     exporter |-> Some(S_prometheus)]

R_namespace == "service.namespace"
R_instance == "service.instance"
R_name == "service.name"
R_version == "service.version"

\* the service name build() puts in the resource, given the namespace
qualify(service_name, ns) ==
    IF ns /= S_empty /\ ~starts_with(service_name, ns \o <<".">>)
    THEN service_name \o <<".">> \o ns
    ELSE service_name

\* the resource vector build() fills before it merges it into the detected one
build_resource(b, e) ==
    (IF e.ns /= S_empty THEN <<<<R_namespace, e.ns>>>> ELSE <<>>)
    \o (IF e.ip /= S_empty THEN <<<<R_instance, e.ip>>>> ELSE <<>>)
    \o (IF b.service_name /= None
        THEN <<<<R_name, qualify(b.service_name[1], e.ns)>>>> ELSE <<>>)
    \o (IF b.service_version /= None
        THEN <<<<R_version, b.service_version[1]>>>> ELSE <<>>)

\* a prometheus Registry: its prefix, its constant labels, its collectors
Registry(prefix, labels, collectors) ==
    [prefix |-> prefix, labels |-> labels, collectors |-> collectors]

\* Registry::new()
Registry_new == Registry(None, None, {})

\* Registry::new_custom: an empty prefix or an empty label map is an error
Registry_new_custom(prefix, labels) ==
    IF prefix = Some(S_empty) \/ labels = Some(<<>>) THEN <<"Err">>
    ELSE Ok(Registry(prefix, labels, {}))

\* the collector the opentelemetry_prometheus exporter registers
Collector == "opentelemetry_prometheus collector"

\* Registry::register: a collector already registered there is an error
Registry_register(registry, c) ==
    IF c \in registry.collectors THEN <<"Err">>
    ELSE Ok([registry EXCEPT !.collectors = @ \cup {c}])

\* build_prometheus with the exporter registered in the process-wide default
\* registry instead of a registry of its own
build_prometheus_Shared(b, default_registry) ==
    LET reged == Registry_register(default_registry, Collector)
    IN  IF reged[1] /= "Ok"
        THEN [registry |-> Panic, default_registry |-> default_registry]
        ELSE [registry |-> Ok(reged[2]), default_registry |-> reged[2]]

\* build_prometheus: the registry it creates (or a panic) and the process-wide
\* default registry, which it leaves alone
build_prometheus(b, default_registry) ==
    LET created == IF b.prefix /= None
                   THEN Registry_new_custom(b.prefix, b.labels)
                   ELSE Ok(Registry_new)
        reged == Registry_register(created[2], Collector)
    IN  IF created[1] /= "Ok" \/ reged[1] /= "Ok"
        THEN [registry |-> Panic, default_registry |-> default_registry]
        ELSE [registry |-> Ok(reged[2]), default_registry |-> default_registry]

\* build: either a panic or the layer (MetricState fields and path), the
\* resource of the provider it installs, and the default registry afterwards
build(b, e, default_registry) ==
    LET otlp == b.exporter = Some(S_otlp)
        bp == build_prometheus(b, default_registry)
    IN  IF ~otlp /\ bp.registry = Panic
        THEN [ok |-> FALSE]
        ELSE [ok |-> TRUE,
              registry |-> IF otlp THEN None ELSE Some(bp.registry[2]),
              default_registry |-> IF otlp THEN default_registry ELSE bp.default_registry,
              resource |-> build_resource(b, e),
              skipper |-> b.skipper,
              is_tls |-> b.is_tls,
              path |-> b.path]

\* ------------------------------------------------------------------------
\* The scrape endpoint
\* ------------------------------------------------------------------------
S_no_registry == <<"#no prometheus registry">>

\* a response of the scrape route: a String body answers with status 200
Response(status, body) == <<"Response", status, body>>
Status(response) == response[2]
Body(response) == response[3]

\* no scrape yet, no skipper application yet
NotScraped == <<>>
NoVerdict == <<>>

\* collectors the application itself may have put in the default registry
ProcessCollector == "process collector"
DefaultRegistries == {Registry_new, Registry(None, None, {ProcessCollector})}

\* Registry::gather: the metric families of the registry's collectors, each
\* with the registry's prefix and constant labels applied, in sorted order
gather(reg) ==
    LET names == SelectSeq(<<Collector, ProcessCollector>>,
                           LAMBDA c : c \in reg.collectors)
    IN  [i \in 1..Len(names) |->
            [family |-> names[i], prefix |-> reg.prefix, labels |-> reg.labels]]

\* TextEncoder::encode: appends the families' text to the buffer, or fails
encode(mfs, buffer, outcome) ==
    IF outcome = "Ok" THEN Ok(buffer \o mfs) ELSE <<"Err">>

EncodeOutcomes == {"Ok", "Err"}

\* exporter_handler with the two registries written in the other order
exporter_handler_DefaultFirst(reg, default_registry, enc1, enc2) ==
    IF reg = None THEN Response(200, S_no_registry)
    ELSE LET e1 == encode(gather(default_registry), <<>>, enc1)
             e2 == encode(gather(reg[1]), e1[2], enc2)
         IN  IF e1[1] /= "Ok" THEN Panic
             ELSE IF e2[1] /= "Ok" THEN Panic
             ELSE Response(200, e2[2])

\* exporter_handler: the response of a scrape, or a panic of the handler
exporter_handler(reg, default_registry, enc1, enc2) ==
    IF reg = None THEN Response(200, S_no_registry)
    ELSE LET e1 == encode(gather(reg[1]), <<>>, enc1)
             e2 == encode(gather(default_registry), e1[2], enc2)
         IN  IF e1[1] /= "Ok" THEN Panic
             ELSE IF e2[1] /= "Ok" THEN Panic
             ELSE Response(200, e2[2])

\* ------------------------------------------------------------------------
\* The order of the steps inside the two handlers
\* ------------------------------------------------------------------------
E_inc == "req_active.add(1)"
E_dec == "req_active.add(-1)"
E_delegate == "service.call"
E_inner_poll == "inner.poll"
E_skip == "skipper.skip"

\* the name of the step that makes the instrument call
StepOf(c) ==
    IF c.inst = "req_active" THEN (IF c.value > 0 THEN E_inc ELSE E_dec) ELSE c.inst

StepsOf(cs) == [i \in 1..Len(cs) |-> StepOf(cs[i])]

\* call with the request handed to the inner service before the add(1)
call_steps_DelegateFirst(c) ==
    (IF c.future /= None THEN <<E_delegate>> ELSE <<>>) \o StepsOf(c.calls)

\* the steps of call, given its result c: the instrument calls, then
\* self.service.call(req) inside the ResponseFuture literal it returns
call_steps(c) ==
    StepsOf(c.calls) \o (IF c.future /= None THEN <<E_delegate>> ELSE <<>>)

\* the steps of the poll that resolves the future, given its result p: the
\* poll of the inner future, then (after a response) the add(-1), the skipper
\* and the recordings; a poll that returns Pending is repeated any number of
\* times and leaves no step
poll_steps(p) ==
    IF p.ret = Pending THEN <<>>
    ELSE <<E_inner_poll>>
         \o (IF p.calls = <<>> THEN <<>>
             ELSE <<StepOf(p.calls[1]), E_skip>> \o StepsOf(Tail(p.calls)))

\* ------------------------------------------------------------------------
\* State
\* ------------------------------------------------------------------------
VARIABLES
    state,    \* MetricState of the layer: skipper and is_tls
    metric,   \* MetricState.metric: the values of the five instruments
    pc,       \* per request: "new", "panicked", "pending", "ready", "dropped"
    req,      \* per request: the Request passed to call
    fut,      \* per request: the fields of the ResponseFuture call returned
    inner,    \* per request: what the last poll of the inner future returned
    ret,      \* per request: what the last ResponseFuture::poll returned
    calls,    \* per request: the instrument calls made for it, in order
    events,   \* per request: the steps the handlers took for it, in order
    builder,  \* the HttpMetricsLayerBuilder being configured
    env,      \* the process environment read by build
    path,     \* HttpMetricsLayer.path of the layer in use
    registry, \* MetricState.registry of the layer in use
    resource, \* the resource attributes build gave the installed provider
    default_registry, \* prometheus::default_registry() of the process
    built,    \* the build() calls made so far: prefix, exporter kind, outcome
    scrape,   \* the last call of exporter_handler: encoder outcomes and result
    verdict   \* the last application of the layer's skipper: path and answer

req_vars == <<metric, pc, req, fut, inner, ret, calls, events>>
layer_vars == <<state, path, registry, resource, default_registry>>
build_vars == <<builder, env, built>>
probe_vars == <<scrape, verdict>>

vars == <<state, metric, pc, req, fut, inner, ret, calls, events,
          builder, env, path, registry, resource, default_registry, built,
          scrape, verdict>>

\* no request has been received
InitRequests ==
    /\ metric = EmptyMetric
    /\ pc = [r \in ReqIds |-> "new"]
    /\ req = [r \in ReqIds |-> NoRequest]
    /\ fut = [r \in ReqIds |-> NoFuture]
    /\ inner = [r \in ReqIds |-> NotPolled]
    /\ ret = [r \in ReqIds |-> NotPolled]
    /\ calls = [r \in ReqIds |-> <<>>]
    /\ events = [r \in ReqIds |-> <<>>]
    /\ scrape = NotScraped
    /\ verdict = NoVerdict

\* HttpMetricsLayerBuilder::default followed by with_skipper, with_path and
\* build, in a process without INSTANCE_NAMESPACE: no builder method sets
\* is_tls, so it keeps its default
Init ==
    /\ state \in [skipper : Skippers, is_tls : {FALSE}]
    /\ path \in ScrapePaths
    /\ registry = Some(Registry(None, None, {Collector}))
    /\ resource = <<>>
    /\ default_registry = Registry_new
    /\ builder = DefaultBuilder
    /\ env = [ns |-> S_empty, ip |-> S_empty]
    /\ built = <<[prefix |-> None, otlp |-> FALSE, ok |-> TRUE]>>
    /\ metric = EmptyMetric
    /\ pc = [r \in ReqIds |-> "new"]
    /\ req = [r \in ReqIds |-> NoRequest]
    /\ fut = [r \in ReqIds |-> NoFuture]
    /\ inner = [r \in ReqIds |-> NotPolled]
    /\ ret = [r \in ReqIds |-> NotPolled]
    /\ calls = [r \in ReqIds |-> <<>>]
    /\ events = [r \in ReqIds |-> <<>>]
    /\ scrape = NotScraped
    /\ verdict = NoVerdict

\* the service receives request r (requests are numbered in arrival order)
Call(r) ==
    /\ pc[r] = "new"
    /\ \A q \in ReqIds : q < r => pc[q] /= "new"
    /\ \E rq \in ReqInputs :
         LET c == call(state, rq)
         IN  /\ req' = [req EXCEPT ![r] = rq]
             /\ metric' = ApplyAll(metric, c.calls)
             /\ calls' = [calls EXCEPT ![r] = @ \o c.calls]
             /\ events' = [events EXCEPT ![r] = @ \o call_steps(c)]
             /\ IF c.future = None
                THEN /\ pc' = [pc EXCEPT ![r] = "panicked"]
                     /\ fut' = fut
                ELSE /\ pc' = [pc EXCEPT ![r] = "pending"]
                     /\ fut' = [fut EXCEPT ![r] = c.future[1]]
    /\ UNCHANGED <<inner, ret, layer_vars, build_vars, probe_vars>>

\* the caller polls the future of request r
Poll(r) ==
    /\ pc[r] = "pending"
    /\ \E res \in InnerResults, latency \in 0..MaxLatency :
         LET p == poll(fut[r], state.skipper, res, latency)
         IN  /\ inner' = [inner EXCEPT ![r] = res]
             /\ ret' = [ret EXCEPT ![r] = p.ret]
             /\ metric' = ApplyAll(metric, p.calls)
             /\ calls' = [calls EXCEPT ![r] = @ \o p.calls]
             /\ events' = [events EXCEPT ![r] = @ \o poll_steps(p)]
             /\ pc' = [pc EXCEPT ![r] = IF p.ret = Pending THEN "pending" ELSE "ready"]
    /\ UNCHANGED <<req, fut, layer_vars, build_vars, probe_vars>>

\* the caller drops the future of request r before it has resolved:
\* ResponseFuture has no Drop implementation, its fields are just released
Drop(r) ==
    /\ pc[r] = "pending"
    /\ pc' = [pc EXCEPT ![r] = "dropped"]
    /\ UNCHANGED <<metric, req, fut, inner, ret, calls, events, layer_vars, build_vars, probe_vars>>

Next == \E r \in ReqIds : Call(r) \/ Poll(r) \/ Drop(r)

Spec == Init /\ [][Next]_vars

\* ------------------------------------------------------------------------
\* Building layers: the builder methods and build
\* ------------------------------------------------------------------------
\* a process that has built nothing yet, with a builder fresh from new()
InitBuild ==
    /\ builder = DefaultBuilder
    /\ env \in Envs
    /\ built = <<>>
    /\ state = [skipper |-> "default", is_tls |-> FALSE]
    /\ path = S_empty
    /\ registry = None
    /\ resource = <<>>
    /\ default_registry = Registry_new
    /\ InitRequests

with_service_name ==
    /\ \E n \in ServiceNames : builder' = [builder EXCEPT !.service_name = Some(n)]
    /\ UNCHANGED <<env, built, layer_vars, req_vars, probe_vars>>

with_service_version ==
    /\ \E v \in ServiceVersions : builder' = [builder EXCEPT !.service_version = Some(v)]
    /\ UNCHANGED <<env, built, layer_vars, req_vars, probe_vars>>

with_prefix ==
    /\ \E x \in Prefixes : builder' = [builder EXCEPT !.prefix = Some(x)]
    /\ UNCHANGED <<env, built, layer_vars, req_vars, probe_vars>>

with_path ==
    /\ \E x \in ScrapePaths : builder' = [builder EXCEPT !.path = x]
    /\ UNCHANGED <<env, built, layer_vars, req_vars, probe_vars>>

with_labels ==
    /\ \E l \in LabelMaps : builder' = [builder EXCEPT !.labels = Some(l)]
    /\ UNCHANGED <<env, built, layer_vars, req_vars, probe_vars>>

with_skipper ==
    /\ \E k \in Skippers : builder' = [builder EXCEPT !.skipper = k]
    /\ UNCHANGED <<env, built, layer_vars, req_vars, probe_vars>>

with_exporter ==
    /\ \E x \in Exporters : builder' = [builder EXCEPT !.exporter = Some(x)]
    /\ UNCHANGED <<env, built, layer_vars, req_vars, probe_vars>>

\* build(self): consumes the builder; the next one starts from new()
Build ==
    /\ Len(built) < MaxBuilds
    /\ LET b == build(builder, env, default_registry)
       IN  /\ built' = Append(built, [prefix |-> builder.prefix,
                                      otlp |-> builder.exporter = Some(S_otlp),
                                      ok |-> b.ok])
           /\ IF b.ok
              THEN /\ state' = [skipper |-> b.skipper, is_tls |-> b.is_tls]
                   /\ path' = b.path
                   /\ registry' = b.registry
                   /\ resource' = b.resource
                   /\ default_registry' = b.default_registry
              ELSE UNCHANGED layer_vars
           /\ metric' = IF b.ok THEN EmptyMetric ELSE metric
    /\ builder' = DefaultBuilder
    /\ UNCHANGED <<env, pc, req, fut, inner, ret, calls, events, probe_vars>>

NextBuild ==
    \/ with_service_name \/ with_service_version \/ with_prefix \/ with_path
    \/ with_labels \/ with_skipper \/ with_exporter \/ Build

SpecBuild == InitBuild /\ [][NextBuild]_vars

\* ------------------------------------------------------------------------
\* A built layer: its scrape endpoint and its skipper
\* ------------------------------------------------------------------------
\* every configuration the builder methods can produce
Builders ==
    [service_name : {None} \cup {Some(n) : n \in ServiceNames},
     service_version : {None} \cup {Some(v) : v \in ServiceVersions},
     prefix : {None} \cup {Some(x) : x \in Prefixes},
     path : ScrapePaths,
     labels : {None} \cup {Some(l) : l \in LabelMaps},
     skipper : Skippers,
     is_tls : {FALSE},
     exporter : {Some(x) : x \in Exporters}]

\* the paths the skipper is applied to: every prefix of "/metricsx" and of
\* "/favicon.icox", and paths that hold "/metrics" elsewhere or not at all
SkipInputs ==
    {SubSeq(S_metrics \o <<"x">>, 1, n) : n \in 0..(Len(S_metrics) + 1)}
    \cup {SubSeq(S_favicon \o <<"x">>, 1, n) : n \in 0..(Len(S_favicon) + 1)}
    \cup {S_hello, S_stats, S_metrics \o <<"/", "a">>, <<"/", "a">> \o S_metrics,
          <<"/", "M", "e", "t", "r", "i", "c", "s">>}

\* the first build of a process, in any configuration
InitLayer ==
    /\ env \in Envs
    /\ default_registry \in DefaultRegistries
    /\ \E b \in Builders :
          LET l == build(b, env, default_registry)
          IN  /\ l.ok
              /\ state = [skipper |-> l.skipper, is_tls |-> l.is_tls]
              /\ path = l.path
              /\ registry = l.registry
              /\ resource = l.resource
              /\ built = <<[prefix |-> b.prefix, otlp |-> b.exporter = Some(S_otlp),
                            ok |-> TRUE]>>
    /\ builder = DefaultBuilder
    /\ InitRequests

\* a GET of the scrape route: exporter_handler runs with the layer's state
Scrape ==
    /\ \E enc1 \in EncodeOutcomes, enc2 \in EncodeOutcomes :
          scrape' = <<[enc |-> IF registry = None THEN <<>> ELSE
                              IF enc1 = "Ok" THEN <<enc1, enc2>> ELSE <<enc1>>,
                      result |-> exporter_handler(registry, default_registry, enc1, enc2)]>>
    /\ UNCHANGED <<verdict, layer_vars, build_vars, req_vars>>

\* (state.skipper.skip)(s)
SkipPath ==
    /\ \E s \in SkipInputs : verdict' = <<[path |-> s, skip |-> Skip(state.skipper, s)]>>
    /\ UNCHANGED <<scrape, layer_vars, build_vars, req_vars>>

NextLayer == Scrape \/ SkipPath

SpecLayer == InitLayer /\ [][NextLayer]_vars

\* ------------------------------------------------------------------------
\* Derived values used by the properties
\* ------------------------------------------------------------------------
CompletionInstruments == {"requests_total", "req_duration", "req_size", "res_size"}

\* positions in the call history of request r that touch the instrument
CallsOf(r, inst) == {i \in 1..Len(calls[r]) : calls[r][i].inst = inst}

\* positions of the req_active calls of request r with the given delta
ActiveCallsOf(r, delta) == {i \in CallsOf(r, "req_active") : calls[r][i].value = delta}

\* positions of the completion-metric calls of request r
CompletionCallsOf(r) == {i \in 1..Len(calls[r]) : calls[r][i].inst \in CompletionInstruments}

RECURSIVE SumOver(_, _)
SumOver(f, S) ==
    IF S = {} THEN 0
    ELSE LET x == CHOOSE y \in S : TRUE IN f[x] + SumOver(f, S \ {x})

\* the value of a counter summed over its label series
SeriesTotal(series) == SumOver(series, DOMAIN series)

\* request r went through call and its future has resolved or was dropped
Finished(r) == pc[r] \in {"ready", "dropped"}

\* request r is in flight: intercepted, neither resolved nor abandoned
InFlight(r) == pc[r] = "pending"

IsReadyOk(x) == Len(x) = 3 /\ x[2] = "Ok"
IsReadyErr(x) == Len(x) = 3 /\ x[2] = "Err"

\* the skipper's verdict on the path stored in the future of request r
Skipped(r) == Skip(state.skipper, fut[r].path)

\* ------------------------------------------------------------------------
\* Properties
\* ------------------------------------------------------------------------

\* C1: once every request that went through call has finished (its future
\* resolved or was dropped), every {method, scheme} series of active_requests,
\* and so their total, is back at its initial value 0.
C1_NetChangeZero ==
    (\A r \in ReqIds : pc[r] = "new" \/ Finished(r))
        => \A l \in DOMAIN metric.req_active : metric.req_active[l] = 0

\* C2: a future dropped while the inner handler is pending has decremented
\* active_requests by 1 with the request's {method, scheme} labels.
C2_DropDecrements ==
    \A r \in ReqIds :
        pc[r] = "dropped" =>
            \E i \in ActiveCallsOf(r, -1) :
                calls[r][i].labels = ActiveLabels(fut[r].method, fut[r].url_scheme)

\* C3: when the inner future resolved to an error, poll has decremented
\* active_requests by 1 with the labels used at the increment.
C3_ErrorDecrements ==
    \A r \in ReqIds :
        IsReadyErr(ret[r]) =>
            \E i \in ActiveCallsOf(r, -1), j \in ActiveCallsOf(r, 1) :
                calls[r][i].labels = calls[r][j].labels

\* C4: in every state active_requests, summed over its series, is the number
\* of requests in flight (stated for the states in which every call returned
\* its future, the case the claim is about).
C4_ActiveIsInFlight ==
    (\A r \in ReqIds : pc[r] /= "panicked")
        => SeriesTotal(metric.req_active) = Cardinality({r \in ReqIds : InFlight(r)})

\* C5: a completed request whose stored path the skipper matches has no
\* completion metric, one increment and one decrement of active_requests.
C5_SkippedOnlyGauge ==
    \A r \in ReqIds :
        (pc[r] = "ready" /\ Skipped(r)) =>
            /\ CompletionCallsOf(r) = {}
            /\ Cardinality(ActiveCallsOf(r, 1)) = 1
            /\ Cardinality(ActiveCallsOf(r, -1)) = 1

\* C6: a completed request whose URI path the skip function matches has no
\* completion metric, also when it has no matched route.
C6_SkipOnUriPath ==
    \A r \in ReqIds :
        (pc[r] = "ready" /\ Skip(state.skipper, req[r].uri_path)) =>
            CompletionCallsOf(r) = {}

\* C7: a request that completed with a response and is not skipped has exactly
\* one call per completion instrument: requests_total + 1, request_size with
\* the size computed at interception, all four with one label set; and
\* requests_total as a whole counts exactly these requests.
C7_OneBatch ==
    /\ \A r \in ReqIds :
         (IsReadyOk(ret[r]) /\ ~Skipped(r)) =>
            /\ \A inst \in CompletionInstruments : Cardinality(CallsOf(r, inst)) = 1
            /\ \A i \in CallsOf(r, "requests_total") : calls[r][i].value = 1
            /\ \A i \in CallsOf(r, "req_size") :
                 compute_approximate_request_size(req[r]) = Ok(calls[r][i].value)
            /\ \A i, j \in CompletionCallsOf(r) : calls[r][i].labels = calls[r][j].labels
    /\ SeriesTotal(metric.requests_total)
         = Cardinality({r \in ReqIds : IsReadyOk(ret[r]) /\ ~Skipped(r)})
    /\ \A h \in {metric.req_duration, metric.req_size, metric.res_size} :
         BagCardinality(h) = Cardinality({r \in ReqIds : IsReadyOk(ret[r]) /\ ~Skipped(r)})

C7_Witness ==
    \E r \in ReqIds :
        /\ IsReadyOk(ret[r]) /\ ~Skipped(r)
        /\ Cardinality(CompletionCallsOf(r)) = 4
        /\ SeriesTotal(metric.requests_total) >= 1

\* C8: every completion metric call carries the five labels method, route,
\* status, scheme and host, and every active_requests call exactly method and
\* scheme.
C8_LabelShapes ==
    \A r \in ReqIds : \A i \in 1..Len(calls[r]) :
        IF calls[r][i].inst = "req_active"
        THEN DOMAIN calls[r][i].labels = {K_method, K_scheme}
        ELSE DOMAIN calls[r][i].labels = {K_method, K_route, K_status, K_scheme, K_host}

\* C9: whatever the inner future's poll returned - Pending, a response or an
\* error, skipped or not - poll returned exactly that.
C9_ResultUnchanged ==
    \A r \in ReqIds : ret[r] = inner[r]

C9_Witness ==
    /\ \E r \in ReqIds : IsReadyOk(ret[r]) /\ Skipped(r)
    /\ \E r \in ReqIds : IsReadyErr(ret[r]) \/ (IsReadyOk(ret[r]) /\ ~Skipped(r))

\* C10: a request whose inner future resolved to an error has no call to
\* requests_total, request_duration, request_size or response_size.
C10_ErrorNoCompletionMetrics ==
    \A r \in ReqIds : IsReadyErr(ret[r]) => CompletionCallsOf(r) = {}

C10_Witness ==
    \E r \in ReqIds : IsReadyErr(ret[r]) /\ pc[r] = "ready" /\ ~Skipped(r)

\* positions in the step history of request r that hold the step
StepsAt(r, e) == {i \in 1..Len(events[r]) : events[r][i] = e}

\* C11: within one request the increment of active_requests is the first
\* step: the hand-over to the inner service, the poll of the inner future, the
\* decrement, the skipper evaluation and every completion metric come after
\* it, the hand-over directly after it, and there is one increment only.
C11_IncrementFirst ==
    \A r \in ReqIds :
        /\ events[r] /= <<>> => events[r][1] = E_inc
        /\ Cardinality(StepsAt(r, E_inc)) <= 1
        /\ \A i \in StepsAt(r, E_delegate) : i = 2
        /\ \A i \in StepsAt(r, E_dec) \cup StepsAt(r, E_skip) :
             \E j \in StepsAt(r, E_inc) : j < i
        /\ \A i \in 1..Len(events[r]) :
             events[r][i] \in CompletionInstruments =>
                 \E j \in StepsAt(r, E_inc), k \in StepsAt(r, E_dec) : j < k /\ k < i
        /\ pc[r] \in {"pending", "ready", "dropped"} => StepsAt(r, E_delegate) = {2}

\* two requests interleave: the second is incremented and handed over while
\* the first is in flight, and the first then completes with its metrics
C11_Witness ==
    \E r, q \in ReqIds :
        /\ r < q
        /\ StepsAt(r, E_dec) /= {} /\ StepsAt(r, E_skip) /= {}
        /\ StepsAt(r, "requests_total") /= {}
        /\ pc[q] = "pending" /\ StepsAt(q, E_delegate) = {2}

\* the size the specification states for a request: the lengths of path,
\* method, header keys and values and URI host, plus the content-length
\* number, 0 when the header is absent or is not a number
ClaimedContentLength(headers) ==
    LET cl == HeaderGet(headers, H_content_length)
    IN  IF cl /= None /\ cl[1] /= <<>> /\ \A i \in 1..Len(cl[1]) : IsDigit(cl[1][i])
        THEN ParseDigits(cl[1], 0)
        ELSE 0

ClaimedSize(rq) ==
    Len(rq.uri_path) + Len(rq.method)
    + SumOver([i \in 1..Len(rq.headers) |->
                  Len(rq.headers[i][1]) + Len(rq.headers[i][2])],
              1..Len(rq.headers))
    + (IF rq.uri_host = None THEN 0 ELSE Len(rq.uri_host[1]))
    + ClaimedContentLength(rq.headers)

\* C12: for every request that reaches compute_approximate_request_size (its
\* increment was made), the function returns the stated sum, which call stores
\* in the future.
C12_ExactSize ==
    \A r \in ReqIds :
        calls[r] /= <<>> =>
            /\ compute_approximate_request_size(req[r]) = Ok(ClaimedSize(req[r]))
            /\ pc[r] /= "panicked"
            /\ fut[r].req_size = ClaimedSize(req[r])

\* C13: whatever anomalies the headers of a request carry, call returns a
\* completion handle for it.
C13_AnomaliesNonFatal ==
    \A r \in ReqIds : req[r] /= NoRequest => pc[r] \in {"pending", "ready", "dropped"}

\* the scheme the specification states: TLS flag, else the first present of
\* the four proxy headers (X-Forwarded-Ssl says https when it is "on"), else
\* http
ClaimedScheme(is_tls, headers) ==
    LET present == [n \in {H_forwarded_proto, H_forwarded_protocol,
                           H_forwarded_ssl, H_url_scheme} |->
                       HeaderGet(headers, n) /= None]
        value(n) == HeaderGet(headers, n)[1]
    IN  CASE is_tls -> S_https
          [] ~is_tls /\ present[H_forwarded_proto] -> value(H_forwarded_proto)
          [] ~is_tls /\ ~present[H_forwarded_proto] /\ present[H_forwarded_protocol] ->
               value(H_forwarded_protocol)
          [] ~is_tls /\ ~present[H_forwarded_proto] /\ ~present[H_forwarded_protocol]
             /\ present[H_forwarded_ssl] /\ value(H_forwarded_ssl) = S_on -> S_https
          [] OTHER -> IF present[H_url_scheme] THEN value(H_url_scheme) ELSE S_http

\* C14: the scheme stored for a request is the one the precedence rule gives.
C14_SchemePrecedence ==
    \A r \in ReqIds :
        pc[r] \in {"pending", "ready", "dropped"} =>
            fut[r].url_scheme = ClaimedScheme(state.is_tls, req[r].headers)

\* C16: with the default skipper, a request routed to the scrape endpoint (its
\* path is the layer's mount path, whatever with_path set it to) that completed
\* has no completion metric: it adds nothing to requests_total or a histogram.
C16_ScrapeNotInstrumented ==
    \A r \in ReqIds :
        (/\ state.skipper = "default"
         /\ pc[r] = "ready"
         /\ starts_with(req[r].uri_path, path)
         /\ req[r].matched_path = Some(path)) =>
            CompletionCallsOf(r) = {}

\* s ends with the suffix p
ends_with(s, p) == Len(s) >= Len(p) /\ SubSeq(s, Len(s) - Len(p) + 1, Len(s)) = p

\* the values the resource holds under a key
ResourceGet(res, key) == {res[i][2] : i \in {j \in 1..Len(res) : res[j][1] = key}}

\* the qualified name as claimed: "<name>.<namespace>", unless the name
\* already has that form
ClaimedQualified(service_name, ns) ==
    IF ends_with(service_name, <<".">> \o ns) THEN service_name
    ELSE service_name \o <<".">> \o ns

\* C19: a build with a service name and a namespace gives the provider the
\* service name "<name>.<namespace>", and leaves a name that already has this
\* form unchanged (so never "<name>.<namespace>.<namespace>").
C19_QualifiedOnce ==
    [][(/\ Len(built') > Len(built)
        /\ builder.service_name /= None
        /\ env.ns /= S_empty) =>
            ResourceGet(resource', R_name)
                = {ClaimedQualified(builder.service_name[1], env.ns)}]_vars

BeginsWith(s, p) == \A i \in 1..Len(p) : i <= Len(s) /\ s[i] = p[i]

\* C15: the default skipper answers true exactly for the paths that begin
\* with "/metrics" or with "/favicon.ico": true for "/metricsx", false for the
\* empty path and for "/hello".
C15_DefaultSkipPrefix ==
    (verdict /= NoVerdict /\ state.skipper = "default") =>
        LET v == verdict[1]
        IN  /\ v.skip = (BeginsWith(v.path, S_metrics) \/ BeginsWith(v.path, S_favicon))
            /\ v.path = S_metrics \o <<"x">> => v.skip
            /\ v.path \in {S_empty, S_hello} => ~v.skip

\* the default skipper was applied to "/metricsx" and skipped it
C15_Witness ==
    /\ verdict /= NoVerdict
    /\ state.skipper = "default"
    /\ verdict[1].path = S_metrics \o <<"x">>
    /\ verdict[1].skip

\* the last build of the process chose the push exporter
LastOtlp == built[Len(built)].otlp

\* C17: a layer has no registry exactly when it was built with exporter
\* "otlp", and then every scrape answers 200 with the placeholder body; with
\* any other exporter a scrape whose encoding succeeds answers 200 with the
\* layer's registry output followed by the default registry's output.
C17_MissingRegistryNoError ==
    /\ LastOtlp <=> registry = None
    /\ scrape /= NotScraped =>
         LET result == scrape[1].result
         IN  IF LastOtlp
             THEN result = Response(200, S_no_registry)
             ELSE scrape[1].enc = <<"Ok", "Ok">> =>
                    /\ result /= Panic
                    /\ Status(result) = 200
                    /\ Body(result) = gather(registry[1]) \o gather(default_registry)
                    /\ SubSeq(Body(result), 1, 1) = gather(registry[1])

\* a layer built for push was scraped
C17_Witness ==
    /\ LastOtlp
    /\ scrape /= NotScraped
    /\ scrape[1].result = Response(200, S_no_registry)

\* C18: a scrape in which the encoding of a registry fails answers with
\* status 500.
C18_EncodeFailureIs500 ==
    (scrape /= NotScraped /\ \E i \in 1..Len(scrape[1].enc) : scrape[1].enc[i] = "Err") =>
        /\ scrape[1].result /= Panic
        /\ Status(scrape[1].result) = 500

\* C21: some configuration the public builder methods can produce builds a
\* layer whose TLS flag is set, and that layer labels a request with the
\* scheme "https" whatever its headers say.
C21_TlsConfigurable ==
    \E b \in Builders :
        LET l == build(b, env, default_registry)
        IN  /\ l.ok
            /\ l.is_tls
            /\ \A rq \in ReqInputs : url_scheme(l.is_tls, rq.headers) = Ok(S_https)

\* C22: a build with with_labels and a local registry attaches the labels to
\* the layer's registry, with or without a prefix.
C22_LabelsAttached ==
    [][(/\ Len(built') > Len(built)
        /\ builder.labels /= None
        /\ builder.exporter /= Some(S_otlp)) =>
            /\ registry' /= None
            /\ registry'[1].labels = builder.labels]_vars

\* C23: with the TLS flag unset and neither X-Forwarded-Proto nor
\* X-Forwarded-Protocol present, a request with X-Forwarded-Ssl: on is given
\* the scheme "https".
C23_ForwardedSslOn ==
    \A r \in ReqIds :
        (/\ pc[r] \in {"pending", "ready", "dropped"}
         /\ ~state.is_tls
         /\ HeaderGet(req[r].headers, H_forwarded_proto) = None
         /\ HeaderGet(req[r].headers, H_forwarded_protocol) = None
         /\ HeaderGet(req[r].headers, H_forwarded_ssl) = Some(S_on)) =>
            fut[r].url_scheme = S_https

\* C24: every {method, scheme} series of active_requests is >= 0 in every
\* state; a request is decremented at most once, only after its increment,
\* and under the labels of its increment.
C24_ActiveNonNegative ==
    /\ \A l \in DOMAIN metric.req_active : metric.req_active[l] >= 0
    /\ \A r \in ReqIds :
          /\ Cardinality(ActiveCallsOf(r, -1)) <= 1
          /\ \A i \in ActiveCallsOf(r, -1) :
                \E j \in ActiveCallsOf(r, 1) :
                    j < i /\ calls[r][j].labels = calls[r][i].labels

\* a request counted under the scheme "https" was decremented while another
\* request is still counted
C24_Witness ==
    \E r \in ReqIds, q \in ReqIds :
        /\ r /= q
        /\ pc[r] = "ready" /\ ActiveCallsOf(r, -1) /= {}
        /\ fut[r].url_scheme = S_https
        /\ pc[q] = "pending"
====
